---- MODULE Spec2Model ----
(***************************************************************************)
(* The quiz server of NsbmMathMaster: the in-memory store (MemStorage,     *)
(* server/storage.ts) behind the HTTP routes (registerRoutes).  One action *)
(* per route handler, each including the storage call it makes.            *)
(*                                                                         *)
(* Fields no handler or scoring step reads are left out of the records:    *)
(* questionText, optionA..D, difficulty, createdBy and createdAt.          *)
(***************************************************************************)
EXTENDS Integers, Sequences, FiniteSets, TLC

\* ---- bounds of the model ------------------------------------------------
MaxTime == 1
MaxAnswers == 2
MaxResults == 2
MaxPending == 2
MaxWire == 2
MaxUsers == 3
MaxEffects == 2
MaxSockets == 5

\* ---- constants of the program -------------------------------------------
MAX_RECONNECT_ATTEMPTS == 5
RECONNECT_DELAY == 3000
IdleLimit == 180000
PingPeriod == 25000

\* ---- values ---------------------------------------------------------------
Null == "null"
NoTime == 0 - 1
NoRank == 0

QuizStates == {"waiting", "started", "completed"}

\* no continuation is waiting
Idle == [active |-> FALSE]

\* the answers query before any record has come back
NoAnswers == [map |-> [i \in {} |-> 0], length |-> 0]

\* the data of a query that has not been answered: undefined
NoSettings == [state |-> "undefined"]

\* the accounts the constructor creates: 1 = admin, 2 = superadmin
SeedUsers == (1 :> [username |-> "admin", role |-> "admin"]) @@
             (2 :> [username |-> "superadmin", role |-> "superadmin"])

\* the five sample questions the constructor creates
SeedQuestions == (1 :> [correctAnswer |-> "B"]) @@
                 (2 :> [correctAnswer |-> "C"]) @@
                 (3 :> [correctAnswer |-> "A"]) @@
                 (4 :> [correctAnswer |-> "C"]) @@
                 (5 :> [correctAnswer |-> "A"])

\* ---- inputs of the requests ---------------------------------------------
NoSession == 0
Callers == {NoSession} \cup DOMAIN SeedUsers
QuestionInputs == {1, 2}
DeleteInputs == {1}
AnswerInputs == {"B", Null}
CorrectAnswerInputs == {"A", "B"}
ResponseTimes == {2}

\* the options of a question
Options == {"A", "B", "C", "D"}

\* the account the superadmin creates for a participant, and its requests
StudentAccount == [username |-> "kamal", role |-> "student"]
StudentBodies == [userId : {3}, questionId : QuestionInputs,
                  userAnswer : AnswerInputs, responseTimeSeconds : ResponseTimes]

\* usernames an account request carries, and the ids it names
UsernameInputs == {"Admin", "kamal"}
UserIdInputs == {1, 2, 3}

AnswerBodies == [userId : DOMAIN SeedUsers, questionId : QuestionInputs,
                 userAnswer : AnswerInputs, responseTimeSeconds : ResponseTimes]

\* a result request with the zero score QuizProvider.submitQuiz posts, and the
\* same request with forged numbers
HonestBody(u) == [userId |-> u, score |-> 0, correctAnswers |-> 0,
                  incorrectAnswers |-> 0, skippedAnswers |-> 0,
                  averageResponseTime |-> 0, completionTime |-> 60, rank |-> NoRank]
ForgedBody(u) == [userId |-> u, score |-> 99, correctAnswers |-> 99,
                  incorrectAnswers |-> 99, skippedAnswers |-> 99,
                  averageResponseTime |-> 99, completionTime |-> 60, rank |-> 1]
ResultBodies == {HonestBody(u) : u \in DOMAIN SeedUsers} \cup
                {ForgedBody(u) : u \in DOMAIN SeedUsers}

\* the requests of the life-cycle specification: one answer per account
CycleAnswerBodies == {b \in AnswerBodies : b.questionId = 1 /\ b.userAnswer = "B"}
CycleResultBodies == {HonestBody(u) : u \in DOMAIN SeedUsers}

\* the browsers: one per account
Clients == DOMAIN SeedUsers

VARIABLES
  now,                 \* the wall clock read by new Date()
  questions,           \* MemStorage.questions: id -> Question
  quizSettings,        \* MemStorage.quizSettings
  quizAnswers,         \* MemStorage.quizAnswers: id -> QuizAnswer
  results,             \* MemStorage.results: id -> Result
  quizAnswerIdCounter, \* MemStorage.quizAnswerIdCounter
  resultIdCounter,     \* MemStorage.resultIdCounter
  response,            \* the last operation and the HTTP status it answered with
  pending,             \* submissions a browser has sent and the server has not served
  settingsData,        \* per browser: data of useQuery(['/api/quiz/settings'])
  settingsFetch,       \* per browser: the answer of the poll in flight
  quizState,           \* per browser: QuizProvider.quizState
  quizQuestions,       \* per browser: QuizProvider.questions, the ids in order
  currentQuestionIndex, \* per browser: QuizProvider.currentQuestionIndex
  userAnswersMap,      \* per browser: QuizProvider.userAnswers, questionId -> answer
  completed,           \* per browser: QuizProvider.completed
  timerClosure,        \* per browser: what the running timer effect captured
  manualAwait,         \* per browser: handleNextQuestion suspended at its await
  timerAwait,          \* per browser: the timeouts the expired countdown has queued
  userAnswersData,     \* per browser: the data of the /api/quiz/answers query
  selectedAnswer,      \* per browser: Quiz.selectedAnswer, the option ticked on the page
  users,               \* MemStorage.users: id -> account
  userIdCounter,       \* MemStorage.userIdCounter
  effectRuns,          \* one browser: how often the WebSocket effect has run
  socketList,          \* one browser: the WebSockets it has created, in order
  webSocketRef,        \* one browser: webSocketRef.current, an index of socketList or 0
  runAttempts,         \* one browser: reconnectAttempts of each run of the effect
  runTimeout,          \* one browser: the runs whose reconnectTimeout is pending
  webSocket,           \* per browser: the state of webSocketRef.current
  reconnectAttempts,   \* per browser: reconnectAttempts of the WebSocket effect
  reconnectTimeout,    \* per browser: the delay of the pending reconnectTimeout, 0 if none
  wssClients,          \* wss.clients: the server's open connections
  clients,             \* the clients Map: tracked connection -> {isAlive, lastPingTime}
  wire,                \* per connection: the frames written by the server, not yet received
  silent               \* the connections whose peer no longer answers or closes

\* the browser's side of the quiz
progressVars == <<quizQuestions, currentQuestionIndex, userAnswersMap, completed,
                  manualAwait, timerAwait, userAnswersData, selectedAnswer>>

\* the browser's side of the settings poll, and its quiz
clientVars == <<settingsData, settingsFetch, quizState, timerClosure, progressVars>>

\* the browser's side of the WebSocket
socketVars == <<webSocket, reconnectAttempts, reconnectTimeout>>

accounts == <<users, userIdCounter>>
effectVars == <<effectRuns, socketList, webSocketRef, runAttempts, runTimeout>>

\* the store, left alone by a step that sends no request
store == <<now, questions, quizSettings, quizAnswers, results, quizAnswerIdCounter,
           resultIdCounter, response>>

\* what a broadcast leaves alone
quiet == <<pending, clientVars, socketVars, wssClients, silent, accounts, effectVars>>

\* what the handlers of the other HTTP routes leave alone
outside == <<quiet, clients, wire>>

vars == <<now, questions, quizSettings, quizAnswers, results,
          quizAnswerIdCounter, resultIdCounter, response, outside>>

\* ---- helpers --------------------------------------------------------------
Role(s) == IF s \in DOMAIN SeedUsers THEN SeedUsers[s].role ELSE "none"

IsAdmin(s) == Role(s) \in {"admin", "superadmin"}

IsSuperAdmin(s) == Role(s) = "superadmin"

\* Map.set(id, v): an existing key keeps its place, a new key goes last
MapSet(m, id, v) == [i \in DOMAIN m \cup {id} |-> IF i = id THEN v ELSE m[i]]

EmptyMap == [i \in {} |-> 0]

RECURSIVE Power(_, _)
Power(b, n) == IF n = 0 THEN 1 ELSE b * Power(b, n - 1)

\* RECONNECT_DELAY * Math.pow(1.5, attempts - 1), in the whole milliseconds
\* setTimeout waits
ReconnectDelay(attempts) ==
  (RECONNECT_DELAY * Power(3, attempts - 1)) \div Power(2, attempts - 1)

\* the ids of a Map in the order it lists them: the order they were added in
RECURSIVE SetToSeq(_)
SetToSeq(S) == IF S = {} THEN <<>>
               ELSE LET m == CHOOSE x \in S : \A y \in S : x <= y
                    IN <<m>> \o SetToSeq(S \ {m})

RECURSIVE SumOver(_, _)
SumOver(f, S) == IF S = {} THEN 0
                 ELSE LET x == CHOOSE y \in S : TRUE
                      IN f[x] + SumOver(f, S \ {x})

\* Math.round of the non-negative quotient n / d
MathRound(n, d) == (2 * n + d) \div (2 * d)

\* ---- the store --------------------------------------------------------------
getQuizAnswersForUser(userId) == {i \in DOMAIN quizAnswers : quizAnswers[i].userId = userId}

\* calculateScore with one point for a correct answer instead of two
calculateScoreOnePoint(userId) ==
  LET userAnswers == getQuizAnswersForUser(userId)
      found == {i \in userAnswers : quizAnswers[i].questionId \in DOMAIN questions}
      nulls == {i \in found : quizAnswers[i].userAnswer = Null}
      correct == {i \in found \ nulls :
                    quizAnswers[i].userAnswer = questions[quizAnswers[i].questionId].correctAnswer}
      incorrect == (found \ nulls) \ correct
      answeredCount == Cardinality(correct) + Cardinality(incorrect)
  IN [score |-> Cardinality(correct) - Cardinality(incorrect),
      correctAnswers |-> Cardinality(correct),
      incorrectAnswers |-> Cardinality(incorrect),
      skippedAnswers |-> (Cardinality(DOMAIN questions) - Cardinality(userAnswers))
                           + Cardinality(nulls),
      averageResponseTime |-> IF answeredCount > 0
                                THEN MathRound(SumOver([i \in userAnswers |->
                                                          quizAnswers[i].responseTimeSeconds],
                                                       userAnswers), answeredCount)
                                ELSE 0]

calculateScore(userId) ==
  LET userAnswers == getQuizAnswersForUser(userId)
      found == {i \in userAnswers : quizAnswers[i].questionId \in DOMAIN questions}
      nulls == {i \in found : quizAnswers[i].userAnswer = Null}
      correct == {i \in found \ nulls :
                    quizAnswers[i].userAnswer = questions[quizAnswers[i].questionId].correctAnswer}
      incorrect == (found \ nulls) \ correct
      correctCount == Cardinality(correct)
      incorrectCount == Cardinality(incorrect)
      skippedCount == (Cardinality(DOMAIN questions) - Cardinality(userAnswers))
                        + Cardinality(nulls)
      totalResponseTime == SumOver([i \in userAnswers |-> quizAnswers[i].responseTimeSeconds],
                                   userAnswers)
      answeredCount == correctCount + incorrectCount
  IN [score |-> (correctCount * 2) - incorrectCount,
      correctAnswers |-> correctCount,
      incorrectAnswers |-> incorrectCount,
      skippedAnswers |-> skippedCount,
      averageResponseTime |-> IF answeredCount > 0
                                THEN MathRound(totalResponseTime, answeredCount)
                                ELSE 0]

\* Array.sort((a, b) => b.score - a.score) is stable: among equal scores the
\* insertion order (ascending id) is kept; the rank is the position, from 1
calculateRankings(rs) ==
  [i \in DOMAIN rs |->
     [rs[i] EXCEPT !.rank =
        1 + Cardinality({j \in DOMAIN rs : rs[j].score > rs[i].score})
          + Cardinality({j \in DOMAIN rs : rs[j].score = rs[i].score /\ j < i})]]

\* saveResult with the submitted fields spread after the calculated ones
saveResultClientWins(insertResult) ==
  calculateRankings(MapSet(results, resultIdCounter,
                           [id |-> resultIdCounter,
                            userId |-> insertResult.userId,
                            completionTime |-> insertResult.completionTime,
                            rank |-> insertResult.rank,
                            score |-> insertResult.score,
                            correctAnswers |-> insertResult.correctAnswers,
                            incorrectAnswers |-> insertResult.incorrectAnswers,
                            skippedAnswers |-> insertResult.skippedAnswers,
                            averageResponseTime |-> insertResult.averageResponseTime]))

\* the results map after saveResult(insertResult)
saveResult(insertResult) ==
  LET id == resultIdCounter
      calculatedScore == calculateScore(insertResult.userId)
      result == [id |-> id,
                 userId |-> insertResult.userId,
                 completionTime |-> insertResult.completionTime,
                 rank |-> insertResult.rank,
                 score |-> calculatedScore.score,
                 correctAnswers |-> calculatedScore.correctAnswers,
                 incorrectAnswers |-> calculatedScore.incorrectAnswers,
                 skippedAnswers |-> calculatedScore.skippedAnswers,
                 averageResponseTime |-> calculatedScore.averageResponseTime]
  IN calculateRankings(MapSet(results, id, result))

\* the answers map after saveQuizAnswer(insertAnswer)
saveQuizAnswer(insertAnswer) ==
  LET id == quizAnswerIdCounter
      isCorrect == IF insertAnswer.questionId \in DOMAIN questions
                     THEN questions[insertAnswer.questionId].correctAnswer = insertAnswer.userAnswer
                     ELSE FALSE
      answer == [id |-> id,
                 userId |-> insertAnswer.userId,
                 questionId |-> insertAnswer.questionId,
                 userAnswer |-> insertAnswer.userAnswer,
                 responseTimeSeconds |-> insertAnswer.responseTimeSeconds,
                 isCorrect |-> isCorrect]
  IN MapSet(quizAnswers, id, answer)

\* the questions map after updateQuestion(id, questionData), id being in the bank
updateQuestion(id, questionData) ==
  MapSet(questions, id, [questions[id] EXCEPT !.correctAnswer = questionData.correctAnswer])

\* the frame broadcastQuizState writes
StateUpdate(state) == [type |-> "QUIZ_STATE_UPDATE", payload |-> state, timestamp |-> now]

\* broadcastQuizState(state): a frame to every open connection; a connection
\* whose send throws (failed) is deleted from the clients Map, nothing else
broadcastQuizState(state, failed) ==
  /\ \A c \in wssClients : Len(wire[c]) < MaxWire
  /\ wire' = [c \in Clients |-> IF c \in wssClients \ failed
                                   THEN Append(wire[c], StateUpdate(state))
                                   ELSE wire[c]]
  /\ clients' = [c \in DOMAIN clients \ failed |-> clients[c]]

startQuiz == [quizSettings EXCEPT !.state = "started", !.startTime = now, !.updatedAt = now]

resetQuiz == [state |-> "waiting", startTime |-> NoTime, endTime |-> NoTime,
              lastReset |-> now, updatedAt |-> now]

Init ==
  /\ now = 0
  /\ questions = SeedQuestions
  /\ quizSettings = [state |-> "waiting", startTime |-> NoTime, endTime |-> NoTime,
                     lastReset |-> NoTime, updatedAt |-> 0]
  /\ quizAnswers = EmptyMap
  /\ results = EmptyMap
  /\ quizAnswerIdCounter = 1
  /\ resultIdCounter = 1
  /\ response = [op |-> "none", status |-> 0]
  /\ pending = {}
  /\ settingsData = [c \in Clients |-> NoSettings]
  /\ settingsFetch = [c \in Clients |-> NoSettings]
  /\ quizState = [c \in Clients |-> "waiting"]
  /\ quizQuestions = [c \in Clients |-> <<>>]
  /\ currentQuestionIndex = [c \in Clients |-> 0]
  /\ userAnswersMap = [c \in Clients |-> EmptyMap]
  /\ completed = [c \in Clients |-> FALSE]
  /\ timerClosure = [c \in Clients |-> [currentQuestionIndex |-> 0, userAnswers |-> EmptyMap,
                                         completed |-> FALSE]]
  /\ manualAwait = [c \in Clients |-> Idle]
  /\ timerAwait = [c \in Clients |-> Idle]
  /\ userAnswersData = [c \in Clients |-> NoAnswers]
  /\ selectedAnswer = [c \in Clients |-> Null]
  /\ users = SeedUsers
  /\ userIdCounter = Cardinality(DOMAIN SeedUsers) + 1
  /\ effectRuns = 0
  /\ socketList = <<>>
  /\ webSocketRef = 0
  /\ runAttempts = [run \in 1..MaxEffects |-> 0]
  /\ runTimeout = {}
  /\ webSocket = [c \in Clients |-> "none"]
  /\ reconnectAttempts = [c \in Clients |-> 0]
  /\ reconnectTimeout = [c \in Clients |-> 0]
  /\ wssClients = {}
  /\ clients = EmptyMap
  /\ wire = [c \in Clients |-> <<>>]
  /\ silent = {}

\* ---- the operations -------------------------------------------------------
Tick ==
  /\ now < MaxTime
  /\ now' = now + 1
  /\ UNCHANGED <<questions, quizSettings, quizAnswers, results,
                 quizAnswerIdCounter, resultIdCounter, response, outside>>

\* POST /api/quiz/start
PostQuizStart(s) ==
  /\ IF IsAdmin(s)
       THEN /\ quizSettings' = startQuiz
            /\ \E failed \in SUBSET wssClients : broadcastQuizState(startQuiz, failed)
            /\ response' = [op |-> "start", status |-> 200]
       ELSE /\ response' = [op |-> "start", status |-> 403]
            /\ UNCHANGED <<quizSettings, clients, wire>>
  /\ UNCHANGED <<now, questions, quizAnswers, results, quizAnswerIdCounter, resultIdCounter, quiet>>

\* the reset route with a resetQuiz that leaves the results in place
PostQuizResetKeepsResults(s) ==
  /\ IF IsSuperAdmin(s)
       THEN /\ quizSettings' = resetQuiz
            /\ quizAnswers' = EmptyMap
            /\ quizAnswerIdCounter' = 1
            /\ \E failed \in SUBSET wssClients : broadcastQuizState(resetQuiz, failed)
            /\ response' = [op |-> "reset", status |-> 200]
            /\ UNCHANGED <<results, resultIdCounter>>
       ELSE /\ response' = [op |-> "reset", status |-> 403]
            /\ UNCHANGED <<quizSettings, quizAnswers, results,
                           quizAnswerIdCounter, resultIdCounter, clients, wire>>
  /\ UNCHANGED <<now, questions, quiet>>

\* POST /api/quiz/reset
PostQuizReset(s) ==
  /\ IF IsSuperAdmin(s)
       THEN /\ quizSettings' = resetQuiz
            /\ quizAnswers' = EmptyMap
            /\ results' = EmptyMap
            /\ quizAnswerIdCounter' = 1
            /\ resultIdCounter' = 1
            /\ \E failed \in SUBSET wssClients : broadcastQuizState(resetQuiz, failed)
            /\ response' = [op |-> "reset", status |-> 200]
       ELSE /\ response' = [op |-> "reset", status |-> 403]
            /\ UNCHANGED <<quizSettings, quizAnswers, results,
                           quizAnswerIdCounter, resultIdCounter, clients, wire>>
  /\ UNCHANGED <<now, questions, quiet>>

\* IStorage.createOrUpdateQuizSettings({state}): no route calls it
CreateOrUpdateQuizSettings(st) ==
  /\ quizSettings' = [quizSettings EXCEPT !.state = st, !.updatedAt = now]
  /\ response' = [op |-> "settings", status |-> 200]
  /\ UNCHANGED <<now, questions, quizAnswers, results, quizAnswerIdCounter, resultIdCounter, outside>>

\* the answers handler without the comparison of the body's userId with the session
HandleQuizAnswersAnyUser(s, answerData) ==
  /\ quizAnswerIdCounter <= MaxAnswers
  /\ IF s = NoSession
       THEN /\ response' = [op |-> "answer", status |-> 401]
            /\ UNCHANGED <<quizAnswers, quizAnswerIdCounter>>
       ELSE /\ quizAnswers' = saveQuizAnswer(answerData)
            /\ quizAnswerIdCounter' = quizAnswerIdCounter + 1
            /\ response' = [op |-> "answer", status |-> 201]
  /\ UNCHANGED <<now, questions, quizSettings, results, resultIdCounter>>

\* the handler of POST /api/quiz/answers
HandleQuizAnswers(s, answerData) ==
  /\ quizAnswerIdCounter <= MaxAnswers
  /\ IF s = NoSession
       THEN /\ response' = [op |-> "answer", status |-> 401]
            /\ UNCHANGED <<quizAnswers, quizAnswerIdCounter>>
       ELSE IF answerData.userId # s
         THEN /\ response' = [op |-> "answer", status |-> 403]
              /\ UNCHANGED <<quizAnswers, quizAnswerIdCounter>>
         ELSE /\ quizAnswers' = saveQuizAnswer(answerData)
              /\ quizAnswerIdCounter' = quizAnswerIdCounter + 1
              /\ response' = [op |-> "answer", status |-> 201]
  /\ UNCHANGED <<now, questions, quizSettings, results, resultIdCounter>>

\* POST /api/quiz/answers, sent and served in one step
PostQuizAnswers(s, answerData) == HandleQuizAnswers(s, answerData) /\ UNCHANGED outside

\* the handler of POST /api/results
HandleResults(s, resultData) ==
  /\ resultIdCounter <= MaxResults
  /\ IF s = NoSession
       THEN /\ response' = [op |-> "result", status |-> 401]
            /\ UNCHANGED <<results, resultIdCounter>>
       ELSE IF resultData.userId # s
         THEN /\ response' = [op |-> "result", status |-> 403]
              /\ UNCHANGED <<results, resultIdCounter>>
         ELSE /\ results' = saveResult(resultData)
              /\ resultIdCounter' = resultIdCounter + 1
              /\ response' = [op |-> "result", status |-> 201]
  /\ UNCHANGED <<now, questions, quizSettings, quizAnswers, quizAnswerIdCounter>>

\* POST /api/results, sent and served in one step
PostResults(s, resultData) == HandleResults(s, resultData) /\ UNCHANGED outside

\* PUT /api/questions/:id with a body that carries a correctAnswer
PutQuestion(s, id, questionData) ==
  /\ IF ~IsAdmin(s)
       THEN /\ response' = [op |-> "putQuestion", status |-> 403]
            /\ UNCHANGED questions
       ELSE IF id \notin DOMAIN questions
         THEN /\ response' = [op |-> "putQuestion", status |-> 404]
              /\ UNCHANGED questions
         ELSE /\ questions' = updateQuestion(id, questionData)
              /\ response' = [op |-> "putQuestion", status |-> 200]
  /\ UNCHANGED <<now, quizSettings, quizAnswers, results, quizAnswerIdCounter, resultIdCounter, outside>>

\* a browser sends a submission for its own account: apiRequest('POST', ...)
SendSubmission(c, route, body) ==
  /\ Cardinality(pending) < MaxPending
  /\ pending' = pending \cup {[route |-> route, session |-> c, body |-> body, sentAt |-> now]}
  /\ UNCHANGED <<now, questions, quizSettings, quizAnswers, results,
                 quizAnswerIdCounter, resultIdCounter, response, clientVars,
                 socketVars, wssClients, clients, wire, silent, accounts, effectVars>>

\* the server serves a submission that was on its way
ServeSubmission(r) ==
  /\ r \in pending
  /\ pending' = pending \ {r}
  /\ IF r.route = "answers"
       THEN HandleQuizAnswers(r.session, r.body)
       ELSE HandleResults(r.session, r.body)
  /\ UNCHANGED <<clientVars, socketVars, wssClients, clients, wire, silent, accounts,
                 effectVars>>

\* the timer effect runs again when quizState, currentQuestionIndex or
\* questions.length changes, and its callbacks keep the values of that render
Capture(index, answers, done) ==
  [currentQuestionIndex |-> index, userAnswers |-> answers, completed |-> done]

\* setQuizState(st) in browser c
setQuizState(c, st) ==
  /\ quizState' = [quizState EXCEPT ![c] = st]
  /\ timerClosure' =
       IF st # quizState[c]
         THEN [timerClosure EXCEPT ![c] = Capture(currentQuestionIndex[c], userAnswersMap[c],
                                                  completed[c])]
         ELSE timerClosure

\* the settings query refetches (refetchInterval): GET /api/quiz/settings
\* answers with the settings record, or {state: "waiting"} when there is none
PollRequest(c) ==
  /\ settingsFetch[c] = NoSettings
  /\ settingsFetch' = [settingsFetch EXCEPT ![c] = quizSettings]
  /\ UNCHANGED <<now, questions, quizSettings, quizAnswers, results, quizAnswerIdCounter, accounts, effectVars,
                 resultIdCounter, response, pending, settingsData, quizState,
                 timerClosure, progressVars,
                 socketVars, wssClients, clients, wire, silent>>

\* the settings effect with a test that lets only 'started' and 'completed' through
PollResponseNoWaiting(c) ==
  /\ settingsFetch[c] # NoSettings
  /\ settingsData' = [settingsData EXCEPT ![c] = settingsFetch[c]]
  /\ settingsFetch' = [settingsFetch EXCEPT ![c] = NoSettings]
  /\ IF settingsFetch[c] # settingsData[c] /\ settingsFetch[c].state \in {"started", "completed"}
       THEN setQuizState(c, settingsFetch[c].state)
       ELSE UNCHANGED <<quizState, timerClosure>>
  /\ UNCHANGED progressVars
  /\ UNCHANGED <<now, questions, quizSettings, quizAnswers, results, quizAnswerIdCounter, accounts, effectVars,
                 resultIdCounter, response, pending,
                 socketVars, wssClients, clients, wire, silent>>

\* the answer arrives: the query's data is replaced and, when it changed, the
\* settings effect runs setQuizState(state)
PollResponse(c) ==
  /\ settingsFetch[c] # NoSettings
  /\ settingsData' = [settingsData EXCEPT ![c] = settingsFetch[c]]
  /\ settingsFetch' = [settingsFetch EXCEPT ![c] = NoSettings]
  /\ IF settingsFetch[c] # settingsData[c] /\ settingsFetch[c].state \in QuizStates
       THEN setQuizState(c, settingsFetch[c].state)
       ELSE UNCHANGED <<quizState, timerClosure>>
  /\ UNCHANGED progressVars
  /\ UNCHANGED <<now, questions, quizSettings, quizAnswers, results, quizAnswerIdCounter, accounts, effectVars,
                 resultIdCounter, response, pending,
                 socketVars, wssClients, clients, wire, silent>>

\* ---- the WebSocket layer, with ENABLE_WEBSOCKETS set ----------------------
\* setupWebSocket(): at mount, or when the reconnect timer fires
SetupWebSocket(c) ==
  /\ webSocket[c] = "none" \/ (webSocket[c] = "closed" /\ reconnectTimeout[c] # 0)
  /\ webSocket' = [webSocket EXCEPT ![c] = "connecting"]
  /\ reconnectTimeout' = [reconnectTimeout EXCEPT ![c] = 0]
  /\ UNCHANGED <<now, questions, quizSettings, quizAnswers, results, quizAnswerIdCounter, accounts, effectVars,
                 resultIdCounter, response, pending, clientVars, reconnectAttempts,
                 wssClients, clients, wire, silent>>

\* the connection is made: wss.on('connection') registers it and writes the
\* current settings, socket.onopen resets reconnectAttempts
SocketOpen(c) ==
  /\ webSocket[c] = "connecting"
  /\ c \notin wssClients
  /\ wssClients' = wssClients \cup {c}
  /\ clients' = MapSet(clients, c, [isAlive |-> TRUE, lastPingTime |-> now])
  /\ wire' = [wire EXCEPT ![c] = <<[type |-> "QUIZ_STATE_UPDATE", payload |-> quizSettings,
                                     timestamp |-> NoTime]>>]
  /\ webSocket' = [webSocket EXCEPT ![c] = "open"]
  /\ reconnectAttempts' = [reconnectAttempts EXCEPT ![c] = 0]
  /\ UNCHANGED <<now, questions, quizSettings, quizAnswers, results, quizAnswerIdCounter, accounts, effectVars,
                 resultIdCounter, response, pending, clientVars, reconnectTimeout, silent>>

\* the connection's removal at the server: ws.on('close') deletes it from the
\* clients Map and the ws library takes it out of wss.clients
Removed(gone) ==
  /\ wssClients' = wssClients \ gone
  /\ clients' = [c \in DOMAIN clients \ gone |-> clients[c]]
  /\ wire' = [c \in Clients |-> IF c \in gone THEN <<>> ELSE wire[c]]
  /\ silent' = silent \ gone

\* socket.onclose with <= for < in the test of reconnectAttempts
SocketCloseOneMore(c) ==
  /\ webSocket[c] \in {"connecting", "open"}
  /\ webSocket' = [webSocket EXCEPT ![c] = "closed"]
  /\ IF reconnectAttempts[c] <= MAX_RECONNECT_ATTEMPTS
       THEN /\ reconnectAttempts' = [reconnectAttempts EXCEPT ![c] = @ + 1]
            /\ reconnectTimeout' =
                 [reconnectTimeout EXCEPT ![c] = ReconnectDelay(reconnectAttempts[c] + 1)]
       ELSE /\ reconnectTimeout' = [reconnectTimeout EXCEPT ![c] = 0]
            /\ UNCHANGED reconnectAttempts
  /\ IF webSocket[c] = "open" /\ c \in wssClients \ silent
       THEN Removed({c})
       ELSE UNCHANGED <<wssClients, clients, wire, silent>>
  /\ UNCHANGED <<now, questions, quizSettings, quizAnswers, results, quizAnswerIdCounter, accounts, effectVars,
                 resultIdCounter, response, pending, clientVars>>

\* the browser's socket closes (a failed open, a lost or terminated
\* connection, the pong timeout): socket.onclose schedules the reconnection;
\* a server that still hears the peer runs ws.on('close')
SocketClose(c) ==
  /\ webSocket[c] \in {"connecting", "open"}
  /\ webSocket' = [webSocket EXCEPT ![c] = "closed"]
  /\ IF reconnectAttempts[c] < MAX_RECONNECT_ATTEMPTS
       THEN /\ reconnectAttempts' = [reconnectAttempts EXCEPT ![c] = @ + 1]
            /\ reconnectTimeout' =
                 [reconnectTimeout EXCEPT ![c] = ReconnectDelay(reconnectAttempts[c] + 1)]
       ELSE /\ reconnectTimeout' = [reconnectTimeout EXCEPT ![c] = 0]
            /\ UNCHANGED reconnectAttempts
  /\ IF webSocket[c] = "open" /\ c \in wssClients \ silent
       THEN Removed({c})
       ELSE UNCHANGED <<wssClients, clients, wire, silent>>
  /\ UNCHANGED <<now, questions, quizSettings, quizAnswers, results, quizAnswerIdCounter, accounts, effectVars,
                 resultIdCounter, response, pending, clientVars>>

\* the peer of a connection stops answering and never closes it
GoSilent(c) ==
  /\ c \in wssClients \ silent
  /\ silent' = silent \cup {c}
  /\ UNCHANGED <<now, questions, quizSettings, quizAnswers, results, quizAnswerIdCounter, accounts, effectVars,
                 resultIdCounter, response, pending, clientVars, socketVars,
                 wssClients, clients, wire>>

\* ws.on('pong'): the peer answers the ping of the last interval
OnPong(c) ==
  /\ c \in wssClients \ silent
  /\ c \in DOMAIN clients
  /\ ~clients[c].isAlive
  /\ clients' = [clients EXCEPT ![c] = [isAlive |-> TRUE, lastPingTime |-> now]]
  /\ UNCHANGED <<now, questions, quizSettings, quizAnswers, results, quizAnswerIdCounter, accounts, effectVars,
                 resultIdCounter, response, pending, clientVars, socketVars,
                 wssClients, wire, silent>>

\* ws.on('message') for a PING frame of the browser's sendPing
OnPingMessage(c) ==
  /\ webSocket[c] = "open"
  /\ c \in wssClients \ silent
  /\ IF c \in DOMAIN clients
       THEN /\ Len(wire[c]) < MaxWire
            /\ clients' = [clients EXCEPT ![c] = [isAlive |-> TRUE, lastPingTime |-> now]]
            /\ wire' = [wire EXCEPT ![c] = Append(@, [type |-> "PONG", payload |-> NoSettings,
                                                       timestamp |-> now])]
       ELSE UNCHANGED <<clients, wire>>
  /\ UNCHANGED <<now, questions, quizSettings, quizAnswers, results, quizAnswerIdCounter, accounts, effectVars,
                 resultIdCounter, response, pending, clientVars, socketVars,
                 wssClients, silent>>

\* the pingInterval callback, over wss.clients; the clock is read in steps of
\* one ping period
PingInterval ==
  LET tracked == wssClients \cap DOMAIN clients
      dead == {c \in tracked : \/ ~clients[c].isAlive
                               \/ (now - clients[c].lastPingTime) * PingPeriod > IdleLimit}
  IN /\ wssClients # {}
     /\ wssClients' = wssClients \ dead
     /\ clients' = [c \in DOMAIN clients \ dead |-> [clients[c] EXCEPT !.isAlive = FALSE]]
     /\ wire' = [c \in Clients |-> IF c \in dead THEN <<>> ELSE wire[c]]
     /\ silent' = silent \ dead
     /\ UNCHANGED <<now, questions, quizSettings, quizAnswers, results, quizAnswerIdCounter, accounts, effectVars,
                    resultIdCounter, response, pending, clientVars, socketVars>>

\* socket.onmessage for the next frame of the connection
OnMessage(c) ==
  /\ webSocket[c] = "open"
  /\ c \notin silent
  /\ wire[c] # <<>>
  /\ wire' = [wire EXCEPT ![c] = Tail(wire[c])]
  /\ IF Head(wire[c]).type = "QUIZ_STATE_UPDATE"
       THEN setQuizState(c, Head(wire[c]).payload.state)
       ELSE UNCHANGED <<quizState, timerClosure>>
  /\ UNCHANGED progressVars
  /\ UNCHANGED <<now, questions, quizSettings, quizAnswers, results, quizAnswerIdCounter, accounts, effectVars,
                 resultIdCounter, response, pending, settingsData, settingsFetch,
                 socketVars, wssClients, clients, silent>>

\* a transport that hands the browser any frame in flight, not the oldest
ReceiveAny(c, i) ==
  /\ webSocket[c] = "open"
  /\ i \in 1..Len(wire[c])
  /\ wire' = [wire EXCEPT ![c] = SubSeq(@, 1, i - 1) \o SubSeq(@, i + 1, Len(@))]
  /\ IF wire[c][i].type = "QUIZ_STATE_UPDATE"
       THEN setQuizState(c, wire[c][i].payload.state)
       ELSE UNCHANGED <<quizState, timerClosure>>
  /\ UNCHANGED progressVars
  /\ UNCHANGED <<now, questions, quizSettings, quizAnswers, results, quizAnswerIdCounter, accounts, effectVars,
                 resultIdCounter, response, pending, settingsData, settingsFetch,
                 socketVars, wssClients, clients, silent>>

\* a transport that loses a frame in flight that is not the last one written
DropFrame(c, i) ==
  /\ i \in 1..(Len(wire[c]) - 1)
  /\ wire' = [wire EXCEPT ![c] = SubSeq(@, 1, i - 1) \o SubSeq(@, i + 1, Len(@))]
  /\ UNCHANGED <<now, questions, quizSettings, quizAnswers, results, quizAnswerIdCounter, accounts, effectVars,
                 resultIdCounter, response, pending, clientVars,
                 socketVars, wssClients, clients, silent>>

\* DELETE /api/questions/:id
DeleteQuestion(s, id) ==
  /\ IF ~IsAdmin(s)
       THEN /\ response' = [op |-> "deleteQuestion", status |-> 403]
            /\ UNCHANGED questions
       ELSE IF id \notin DOMAIN questions
         THEN /\ response' = [op |-> "deleteQuestion", status |-> 404]
              /\ UNCHANGED questions
         ELSE /\ questions' = [i \in DOMAIN questions \ {id} |-> questions[i]]
              /\ response' = [op |-> "deleteQuestion", status |-> 200]
  /\ UNCHANGED <<now, quizSettings, quizAnswers, results, quizAnswerIdCounter, resultIdCounter, outside>>

\* ---- the WebSocket effect across route changes ------------------------------
\* what the effect's steps leave alone
beyondEffect == <<store, pending, clientVars, socketVars, wssClients, clients, wire, silent,
                  accounts>>

\* WebSocket.close(): a socket that is connecting or open starts closing
closeSocket(list, k) ==
  IF k # 0 /\ list[k].readyState \in {"connecting", "open"}
    THEN [list EXCEPT ![k].readyState = "closing"]
    ELSE list

\* setupWebSocket() of the given run: it closes the socket in webSocketRef,
\* creates a socket whose handlers belong to the run, and stores it in the ref
setupWebSocket(run) ==
  /\ Len(socketList) < MaxSockets
  /\ socketList' = Append(closeSocket(socketList, webSocketRef),
                          [owner |-> run, readyState |-> "connecting"])
  /\ webSocketRef' = Len(socketList) + 1

\* a route change (or the mount): the teardown of the run before clears its
\* timers and closes the socket in webSocketRef if it is open; the effect then
\* runs again with fresh connection state and calls setupWebSocket
RunEffect ==
  /\ effectRuns < MaxEffects
  /\ Len(socketList) < MaxSockets
  /\ effectRuns' = effectRuns + 1
  /\ runTimeout' = runTimeout \ {effectRuns}
  /\ LET tornDown == IF webSocketRef # 0 /\ socketList[webSocketRef].readyState = "open"
                       THEN closeSocket(socketList, webSocketRef) ELSE socketList
     IN socketList' = Append(closeSocket(tornDown, webSocketRef),
                             [owner |-> effectRuns + 1, readyState |-> "connecting"])
  /\ webSocketRef' = Len(socketList) + 1
  /\ UNCHANGED <<runAttempts, beyondEffect>>

\* socket.onopen of socket k
OnOpen(k) ==
  /\ k \in DOMAIN socketList
  /\ socketList[k].readyState = "connecting"
  /\ socketList' = [socketList EXCEPT ![k].readyState = "open"]
  /\ runAttempts' = [runAttempts EXCEPT ![socketList[k].owner] = 0]
  /\ UNCHANGED <<effectRuns, webSocketRef, runTimeout, beyondEffect>>

\* socket.onclose of socket k, after a close() or a drop: cleanup() of the
\* owning run, then its reconnection is scheduled while attempts remain
OnClose(k) ==
  /\ k \in DOMAIN socketList
  /\ socketList[k].readyState # "closed"
  /\ socketList' = [socketList EXCEPT ![k].readyState = "closed"]
  /\ LET run == socketList[k].owner
     IN IF runAttempts[run] < MAX_RECONNECT_ATTEMPTS
          THEN /\ runAttempts' = [runAttempts EXCEPT ![run] = @ + 1]
               /\ runTimeout' = runTimeout \cup {run}
          ELSE /\ runTimeout' = runTimeout \ {run}
               /\ UNCHANGED runAttempts
  /\ UNCHANGED <<effectRuns, webSocketRef, beyondEffect>>

\* the reconnectTimeout of a run fires: setupWebSocket of that run
ReconnectFires(run) ==
  /\ run \in runTimeout
  /\ runTimeout' = runTimeout \ {run}
  /\ setupWebSocket(run)
  /\ UNCHANGED <<effectRuns, runAttempts, beyondEffect>>

\* ---- the accounts -----------------------------------------------------------
\* String.toLowerCase on the usernames in use
toLowerCase(name) == IF name = "Admin" THEN "admin" ELSE name

\* getUserByUsername(username): the ids whose username matches without case
getUserByUsername(username) ==
  {i \in DOMAIN users : toLowerCase(users[i].username) = toLowerCase(username)}

\* what the account routes leave alone
beyondAccounts == <<now, questions, quizSettings, quizAnswers, results, quizAnswerIdCounter,
                    resultIdCounter, pending, clientVars, socketVars, wssClients, silent,
                    clients, wire, effectVars>>

\* POST /api/users
PostUsers(s, userData) ==
  /\ userIdCounter <= MaxUsers
  /\ IF ~IsSuperAdmin(s)
       THEN /\ response' = [op |-> "createUser", status |-> 403]
            /\ UNCHANGED accounts
       ELSE IF getUserByUsername(userData.username) # {}
         THEN /\ response' = [op |-> "createUser", status |-> 400]
              /\ UNCHANGED accounts
         ELSE /\ users' = MapSet(users, userIdCounter, userData)
              /\ userIdCounter' = userIdCounter + 1
              /\ response' = [op |-> "createUser", status |-> 201]
  /\ UNCHANGED beyondAccounts

\* PUT /api/users/:id with a body that carries a username
PutUser(s, id, userData) ==
  /\ IF ~IsSuperAdmin(s)
       THEN /\ response' = [op |-> "updateUser", status |-> 403]
            /\ UNCHANGED users
       ELSE IF id \notin DOMAIN users
         THEN /\ response' = [op |-> "updateUser", status |-> 404]
              /\ UNCHANGED users
         ELSE /\ users' = MapSet(users, id, [users[id] EXCEPT !.username = userData.username])
              /\ response' = [op |-> "updateUser", status |-> 200]
  /\ UNCHANGED <<userIdCounter, beyondAccounts>>

\* DELETE /api/users/:id
DeleteUser(s, id) ==
  /\ IF ~IsSuperAdmin(s)
       THEN /\ response' = [op |-> "deleteUser", status |-> 403]
            /\ UNCHANGED users
       ELSE IF id \notin DOMAIN users
         THEN /\ response' = [op |-> "deleteUser", status |-> 404]
              /\ UNCHANGED users
         ELSE /\ users' = [i \in DOMAIN users \ {id} |-> users[i]]
              /\ response' = [op |-> "deleteUser", status |-> 200]
  /\ UNCHANGED <<userIdCounter, beyondAccounts>>

\* ---- what a participant is sent ---------------------------------------------
\* the role of the session's account
SessionRole(s) == IF s \in DOMAIN users THEN users[s].role ELSE "none"

\* the body of GET /api/questions for a caller of that role, the bank being bank
questionsBody(bank, role) ==
  IF role \in {"none", "student"}
    THEN [i \in DOMAIN bank |-> [id |-> i]]
    ELSE [i \in DOMAIN bank |-> [id |-> i, correctAnswer |-> bank[i].correctAnswer]]

\* the body of the 201 of POST /api/quiz/answers: the record saveQuizAnswer
\* returns, the bank being bank
savedAnswer(bank, insertAnswer) ==
  [id |-> quizAnswerIdCounter,
   userId |-> insertAnswer.userId,
   questionId |-> insertAnswer.questionId,
   userAnswer |-> insertAnswer.userAnswer,
   responseTimeSeconds |-> insertAnswer.responseTimeSeconds,
   isCorrect |-> IF insertAnswer.questionId \in DOMAIN bank
                   THEN bank[insertAnswer.questionId].correctAnswer = insertAnswer.userAnswer
                   ELSE FALSE]

\* the banks that differ from the bank in one correctAnswer at most
TwinBanks == {[questions EXCEPT ![i].correctAnswer = a] : i \in DOMAIN questions, a \in Options}

\* ---- the leaderboard --------------------------------------------------------
\* the rows the leaderboard table shows
TableRows == 10

\* storage.listResults(): the Results in the order the Map lists them
listResults == [k \in 1..Cardinality(DOMAIN results) |-> results[SetToSeq(DOMAIN results)[k]]]

\* the body of GET /api/results for the session s: an admin gets the list, any
\* other account gets it with userId 0 in the Results of other accounts
resultsBody(s) ==
  IF SessionRole(s) \in {"admin", "superadmin"}
    THEN listResults
    ELSE [k \in DOMAIN listResults |->
            IF listResults[k].userId = s THEN listResults[k]
            ELSE [listResults[k] EXCEPT !.userId = 0]]

\* the reduce of Leaderboard.sortedResults: one entry per userId, the first
\* one seen unless a later one has a higher score
RECURSIVE groupByUser(_, _)
groupByUser(acc, rest) ==
  IF rest = <<>> THEN acc
  ELSE LET current == Head(rest)
           same == {k \in DOMAIN acc : acc[k].userId = current.userId}
           existingIndex == CHOOSE k \in same : \A j \in same : k <= j
       IN IF same = {} THEN groupByUser(Append(acc, current), Tail(rest))
          ELSE IF current.score > acc[existingIndex].score
            THEN groupByUser([acc EXCEPT ![existingIndex] = current], Tail(rest))
            ELSE groupByUser(acc, Tail(rest))

\* Array.sort((a, b) => b.score - a.score), which is stable
RECURSIVE sortByScore(_, _)
sortByScore(sorted, rest) ==
  IF rest = <<>> THEN sorted
  ELSE LET x == Head(rest)
           k == Cardinality({i \in DOMAIN sorted : sorted[i].score >= x.score})
       IN sortByScore(SubSeq(sorted, 1, k) \o <<x>> \o SubSeq(sorted, k + 1, Len(sorted)),
                      Tail(rest))

\* Leaderboard.sortedResults for the fetched list
sortedResults(leaderboardData) == sortByScore(<<>>, groupByUser(<<>>, leaderboardData))

\* the rows of the table: sortedResults.slice(0, 10)
tableRows(leaderboardData) ==
  SubSeq(sortedResults(leaderboardData), 1,
         IF Len(sortedResults(leaderboardData)) < TableRows
           THEN Len(sortedResults(leaderboardData)) ELSE TableRows)

\* actualRank of the row at index (from 1): one more than the rows above it
\* whose score differs
actualRank(rows, index) ==
  1 + Cardinality({i \in 1..(index - 1) : rows[i].score # rows[index].score})

\* Leaderboard.calculateRank: one more than the distinct higher scores
calculateRank(rows, userId) ==
  LET own == {k \in DOMAIN rows : rows[k].userId = userId}
      userIndex == CHOOSE k \in own : \A j \in own : k <= j
  IN IF own = {} THEN 0
     ELSE 1 + Cardinality({rows[i].score : i \in {j \in DOMAIN rows :
                                                     rows[j].score > rows[userIndex].score}})

\* userRank of the score card: the rank stored in the user's first Result of
\* the list, or calculateRank when there is none
userRank(leaderboardData, userId) ==
  LET own == {k \in DOMAIN leaderboardData : leaderboardData[k].userId = userId}
      userResult == leaderboardData[CHOOSE k \in own : \A j \in own : k <= j]
  IN IF own # {} /\ userResult.rank # NoRank
       THEN userResult.rank
       ELSE calculateRank(sortedResults(leaderboardData), userId)

\* ---- the participant's quiz in the browser ---------------------------------
\* what the quiz actions of a browser leave alone outside the store
beyondQuiz == <<pending, settingsData, settingsFetch, quizState, socketVars,
                wssClients, clients, wire, silent, accounts, effectVars>>

\* GET /api/questions: storage.listQuestions()
listQuestions == SetToSeq(DOMAIN questions)

\* GET /api/quiz/answers as the answers effect reads it: the Map it builds (a
\* later record of a question overwrites an earlier one) and the array's length
AnswersOf(userId) ==
  LET ids == getQuizAnswersForUser(userId)
      last(q) == CHOOSE i \in ids : /\ quizAnswers[i].questionId = q
                                    /\ \A j \in ids : quizAnswers[j].questionId = q => j <= i
  IN [map |-> [q \in {quizAnswers[i].questionId : i \in ids} |-> quizAnswers[last(q)].userAnswer],
      length |-> Cardinality(ids)]

\* the index the answers effect leaves, given the data and questions.length
ResumeIndex(c, data, length) ==
  IF data.length > 0 /\ data.length < length THEN data.length ELSE currentQuestionIndex[c]

\* the body submitQuiz posts, from the userAnswers of the render that called it
QuizBody(c, answers) ==
  [HonestBody(c) EXCEPT
     !.skippedAnswers = Len(quizQuestions[c]) - Cardinality(DOMAIN answers),
     !.averageResponseTime = IF DOMAIN answers = {} THEN 0 ELSE 60,
     !.completionTime = Len(quizQuestions[c]) * 60]

\* the Quiz page's effect on [currentQuestionIndex, questions, userAnswers]:
\* selectedAnswer becomes the stored answer of the question on screen, or null
ShownAnswer(c, list, index, answers) ==
  IF Len(list) > 0 /\ index < Len(list)
    THEN [selectedAnswer EXCEPT ![c] = IF list[index + 1] \in DOMAIN answers
                                         THEN answers[list[index + 1]] ELSE Null]
    ELSE selectedAnswer

\* handleAnswerChange(value): the participant ticks an option
SelectAnswer(c, value) ==
  /\ quizState[c] = "started"
  /\ currentQuestionIndex[c] < Len(quizQuestions[c])
  /\ selectedAnswer' = [selectedAnswer EXCEPT ![c] = value]
  /\ UNCHANGED <<store, beyondQuiz, quizQuestions, currentQuestionIndex, userAnswersMap,
                 completed, timerClosure, manualAwait, timerAwait, userAnswersData>>

\* the questions query answers and its effect stores the list; a change of
\* questions.length runs the answers effect and the timer effect again
LoadQuestions(c) ==
  /\ quizState[c] = "started"
  /\ quizQuestions[c] # listQuestions
  /\ quizQuestions' = [quizQuestions EXCEPT ![c] = listQuestions]
  /\ IF Len(listQuestions) # Len(quizQuestions[c])
       THEN /\ userAnswersMap' = IF userAnswersData[c] = NoAnswers THEN userAnswersMap
                                 ELSE [userAnswersMap EXCEPT ![c] = userAnswersData[c].map]
            /\ currentQuestionIndex' =
                 [currentQuestionIndex EXCEPT
                    ![c] = ResumeIndex(c, userAnswersData[c], Len(listQuestions))]
            /\ timerClosure' = [timerClosure EXCEPT
                                  ![c] = Capture(currentQuestionIndex'[c], userAnswersMap'[c],
                                                 completed[c])]
       ELSE UNCHANGED <<userAnswersMap, currentQuestionIndex, timerClosure>>
  /\ selectedAnswer' = ShownAnswer(c, listQuestions, currentQuestionIndex'[c], userAnswersMap'[c])
  /\ UNCHANGED <<store, beyondQuiz, completed, manualAwait, timerAwait, userAnswersData>>

\* the answers query answers with new data and its effect rebuilds userAnswers
\* and moves currentQuestionIndex to the number of records
RestoreAnswers(c) ==
  /\ quizState[c] = "started"
  /\ userAnswersData[c] # AnswersOf(c)
  /\ userAnswersData' = [userAnswersData EXCEPT ![c] = AnswersOf(c)]
  /\ userAnswersMap' = [userAnswersMap EXCEPT ![c] = AnswersOf(c).map]
  /\ currentQuestionIndex' =
       [currentQuestionIndex EXCEPT
          ![c] = ResumeIndex(c, AnswersOf(c), Len(quizQuestions[c]))]
  /\ timerClosure' =
       IF currentQuestionIndex'[c] # currentQuestionIndex[c]
         THEN [timerClosure EXCEPT
                 ![c] = Capture(currentQuestionIndex'[c], userAnswersMap'[c], completed[c])]
         ELSE timerClosure
  /\ selectedAnswer' = ShownAnswer(c, quizQuestions[c], currentQuestionIndex'[c],
                                   userAnswersMap'[c])
  /\ UNCHANGED <<store, beyondQuiz, quizQuestions, completed, manualAwait, timerAwait>>

\* submitAnswer(questionId, answer) of a render whose userAnswers is `answers`:
\* the request goes out unless that Map already holds the same answer
submitAnswer(c, answers, questionId, answer) ==
  IF questionId \notin DOMAIN answers \/ answers[questionId] # answer
    THEN /\ userAnswersMap' = [userAnswersMap EXCEPT ![c] = MapSet(answers, questionId, answer)]
         /\ selectedAnswer' = ShownAnswer(c, quizQuestions[c], currentQuestionIndex[c],
                                          userAnswersMap'[c])
         /\ \E rt \in ResponseTimes :
              HandleQuizAnswers(c, [userId |-> c, questionId |-> questionId,
                                    userAnswer |-> answer, responseTimeSeconds |-> rt])
    ELSE UNCHANGED <<store, userAnswersMap, selectedAnswer>>

\* submitQuiz() of a render whose completed flag is `done`
submitQuiz(c, answers, done) ==
  IF Len(quizQuestions[c]) = 0 \/ done
    THEN UNCHANGED <<store, completed>>
    ELSE /\ HandleResults(c, QuizBody(c, answers))
         /\ completed' = [completed EXCEPT ![c] = (response'.status = 201) \/ @]

\* handleNextQuestion up to its await: the answer of the question on screen
ManualSubmit(c) ==
  /\ quizState[c] = "started"
  /\ ~manualAwait[c].active
  /\ currentQuestionIndex[c] < Len(quizQuestions[c])
  /\ submitAnswer(c, userAnswersMap[c], quizQuestions[c][currentQuestionIndex[c] + 1],
                  selectedAnswer[c])
  /\ manualAwait' = [manualAwait EXCEPT
                       ![c] = [active |-> TRUE,
                               currentQuestionIndex |-> currentQuestionIndex[c],
                               userAnswers |-> userAnswersMap[c],
                               completed |-> completed[c]]]
  /\ UNCHANGED <<beyondQuiz, quizQuestions, currentQuestionIndex, completed, timerClosure,
                 timerAwait, userAnswersData>>

\* handleNextQuestion after its await: nextQuestion() of the render that was clicked
ManualContinue(c) ==
  /\ manualAwait[c].active
  /\ manualAwait' = [manualAwait EXCEPT ![c] = Idle]
  /\ IF manualAwait[c].currentQuestionIndex < Len(quizQuestions[c]) - 1
       THEN /\ currentQuestionIndex' = [currentQuestionIndex EXCEPT ![c] = @ + 1]
            /\ timerClosure' = [timerClosure EXCEPT
                                  ![c] = Capture(currentQuestionIndex'[c], userAnswersMap[c],
                                                 completed[c])]
            /\ UNCHANGED <<store, completed>>
       ELSE /\ submitQuiz(c, manualAwait[c].userAnswers, manualAwait[c].completed)
            /\ UNCHANGED <<currentQuestionIndex, timerClosure>>
  /\ selectedAnswer' =
       IF currentQuestionIndex'[c] # currentQuestionIndex[c]
         THEN ShownAnswer(c, quizQuestions[c], currentQuestionIndex'[c], userAnswersMap[c])
         ELSE [selectedAnswer EXCEPT ![c] = Null]
  /\ UNCHANGED <<beyondQuiz, quizQuestions, userAnswersMap, timerAwait, userAnswersData>>

\* the countdown reaches zero: the interval's callback, with the values the
\* timer effect captured, and the first timeout it queues (submitAnswer)
TimerExpiry(c) ==
  /\ quizState[c] = "started"
  /\ Len(quizQuestions[c]) > 0
  /\ ~timerAwait[c].active
  /\ LET closure == timerClosure[c]
         index == closure.currentQuestionIndex
     IN /\ IF index < Len(quizQuestions[c])
             THEN LET questionId == quizQuestions[c][index + 1]
                      answer == IF questionId \in DOMAIN closure.userAnswers
                                  THEN closure.userAnswers[questionId] ELSE Null
                  IN submitAnswer(c, closure.userAnswers, questionId, answer)
             ELSE UNCHANGED <<store, userAnswersMap, selectedAnswer>>
        /\ timerAwait' = [timerAwait EXCEPT ![c] = [active |-> TRUE] @@ closure]
  /\ UNCHANGED <<beyondQuiz, quizQuestions, currentQuestionIndex, completed, timerClosure,
                 manualAwait, userAnswersData>>

\* the second timeout of the expired countdown: the next question, or submitQuiz
TimerContinue(c) ==
  /\ timerAwait[c].active
  /\ timerAwait' = [timerAwait EXCEPT ![c] = Idle]
  /\ IF timerAwait[c].currentQuestionIndex < Len(quizQuestions[c]) - 1
       THEN /\ currentQuestionIndex' = [currentQuestionIndex EXCEPT ![c] = @ + 1]
            /\ timerClosure' = [timerClosure EXCEPT
                                  ![c] = Capture(currentQuestionIndex'[c], userAnswersMap[c],
                                                 completed[c])]
            /\ UNCHANGED <<store, completed>>
       ELSE /\ submitQuiz(c, timerAwait[c].userAnswers, timerAwait[c].completed)
            /\ UNCHANGED <<currentQuestionIndex, timerClosure>>
  /\ selectedAnswer' = ShownAnswer(c, quizQuestions[c], currentQuestionIndex'[c],
                                   userAnswersMap[c])
  /\ UNCHANGED <<beyondQuiz, quizQuestions, userAnswersMap, manualAwait, userAnswersData>>

\* the quiz life cycle as the routes drive it: every caller, and the clock
Next ==
  \/ Tick
  \/ \E s \in Callers : PostQuizStart(s)
  \/ \E s \in Callers : PostQuizReset(s)
  \/ \E s \in Callers, b \in CycleAnswerBodies : PostQuizAnswers(s, b)
  \/ \E s \in Callers, b \in CycleResultBodies : PostResults(s, b)

Spec == Init /\ [][Next]_vars

\* the life cycle with every operation of the storage interface on the settings
StoreNext ==
  \/ Next
  \/ \E st \in QuizStates : CreateOrUpdateQuizSettings(st)

StoreSpec == Init /\ [][StoreNext]_vars

\* answering and scoring: each account submits for itself, the admin deletes a
\* question that is in the bank
ScoreNext ==
  \/ \E b \in AnswerBodies : PostQuizAnswers(b.userId, b)
  \/ \E b \in ResultBodies : PostResults(b.userId, b)
  \/ \E id \in DeleteInputs \cap DOMAIN questions : DeleteQuestion(1, id)

ScoreSpec == Init /\ [][ScoreNext]_vars

\* answering and scoring while the admin edits the answer key of a question
EditNext ==
  \/ \E b \in AnswerBodies : PostQuizAnswers(b.userId, b)
  \/ \E b \in CycleResultBodies : PostResults(b.userId, b)
  \/ \E id \in QuestionInputs, a \in CorrectAnswerInputs :
       PutQuestion(1, id, [correctAnswer |-> a])

EditSpec == Init /\ [][EditNext]_vars

\* answering while the admin empties the question bank
BankNext ==
  \/ \E b \in AnswerBodies : PostQuizAnswers(b.userId, b)
  \/ \E id \in DOMAIN questions : DeleteQuestion(1, id)

BankSpec == Init /\ [][BankNext]_vars

\* submissions that take time to reach the server, around a reset
StaleNext ==
  \/ Tick
  \/ PostQuizReset(2)
  \/ \E c \in Clients, b \in CycleAnswerBodies : b.userId = c /\ SendSubmission(c, "answers", b)
  \/ \E c \in Clients : SendSubmission(c, "results", HonestBody(c))
  \/ \E r \in pending : ServeSubmission(r)

StaleSpec == Init /\ [][StaleNext]_vars

\* the browsers poll the settings while the admins start and reset the quiz
PollNext ==
  \/ Tick
  \/ PostQuizStart(1)
  \/ PostQuizReset(2)
  \/ \E c \in Clients : PollRequest(c)
  \/ \E c \in Clients : PollResponse(c)

\* the query refetches every 3 seconds and every request is answered
PollSpec ==
  /\ Init /\ [][PollNext]_vars
  /\ \A c \in Clients : WF_vars(PollRequest(c)) /\ WF_vars(PollResponse(c))

\* submissions from every session, for its own and for the other account
SubmitNext ==
  \/ \E s \in Callers, b \in CycleAnswerBodies : PostQuizAnswers(s, b)
  \/ \E s \in Callers, b \in CycleResultBodies : PostResults(s, b)
  \/ PostQuizReset(2)

SubmitSpec == Init /\ [][SubmitNext]_vars

\* the push layer: browsers connect, the admins start and reset, the storage
\* interface writes the settings
PushNext ==
  \/ \E c \in Clients : SetupWebSocket(c)
  \/ \E c \in Clients : SocketOpen(c)
  \/ \E c \in Clients : SocketClose(c)
  \/ \E c \in Clients : OnMessage(c)
  \/ PostQuizStart(1)
  \/ PostQuizReset(2)
  \/ \E st \in QuizStates : CreateOrUpdateQuizSettings(st)

PushSpec == Init /\ [][PushNext]_vars

\* the push layer over a transport that reorders and loses frames
ReorderNext ==
  \/ \E c \in Clients : SetupWebSocket(c)
  \/ \E c \in Clients : SocketOpen(c)
  \/ \E c \in Clients, i \in 1..MaxWire : ReceiveAny(c, i)
  \/ \E c \in Clients, i \in 1..MaxWire : DropFrame(c, i)
  \/ PostQuizStart(1)
  \/ PostQuizReset(2)

ReorderSpec == Init /\ [][ReorderNext]_vars

\* the server's connections under the heartbeat, while the admin starts the quiz
HeartbeatNext ==
  \/ \E c \in Clients : SetupWebSocket(c)
  \/ \E c \in Clients : SocketOpen(c)
  \/ \E c \in Clients : SocketClose(c)
  \/ \E c \in Clients : GoSilent(c)
  \/ \E c \in Clients : OnPong(c)
  \/ \E c \in Clients : OnPingMessage(c)
  \/ \E c \in Clients : OnMessage(c)
  \/ PingInterval
  \/ PostQuizStart(1)

\* setInterval runs the pingInterval callback every 25 seconds
HeartbeatSpec == Init /\ [][HeartbeatNext]_vars /\ WF_vars(PingInterval)

\* one mounted WebSocket effect per browser: opens succeed or fail, connections
\* close, and the settings poll runs beside it
ReconnectNext ==
  \/ \E c \in Clients : SetupWebSocket(c)
  \/ \E c \in Clients : SocketOpen(c)
  \/ \E c \in Clients : SocketClose(c)
  \/ \E c \in Clients : PollRequest(c)
  \/ \E c \in Clients : PollResponse(c)
  \/ PostQuizStart(1)

ReconnectSpec == Init /\ [][ReconnectNext]_vars

\* one participant's browser through a quiz; the admin trims the bank before
\* starting it, and the participant ticks an option or none before a click
QuizTakers == {2}
SelectedAnswers == {"B"}
BankCuts == {2, 3, 4, 5}
QuizNext ==
  \/ \E id \in BankCuts : quizSettings.state = "waiting" /\ DeleteQuestion(1, id)
  \/ PostQuizStart(1)
  \/ \E c \in QuizTakers : PollRequest(c)
  \/ \E c \in QuizTakers : PollResponse(c)
  \/ \E c \in QuizTakers : LoadQuestions(c)
  \/ \E c \in QuizTakers : RestoreAnswers(c)
  \/ \E c \in QuizTakers, value \in SelectedAnswers : SelectAnswer(c, value)
  \/ \E c \in QuizTakers : ManualSubmit(c)
  \/ \E c \in QuizTakers : ManualContinue(c)
  \/ \E c \in QuizTakers : TimerExpiry(c)
  \/ \E c \in QuizTakers : TimerContinue(c)

QuizSpec == Init /\ [][QuizNext]_vars

\* the account routes, every caller
UserNext ==
  \/ \E s \in Callers, name \in UsernameInputs :
       PostUsers(s, [username |-> name, role |-> "student"])
  \/ \E s \in Callers, id \in UserIdInputs, name \in UsernameInputs :
       PutUser(s, id, [username |-> name])
  \/ \E s \in Callers, id \in UserIdInputs : DeleteUser(s, id)

UserSpec == Init /\ [][UserNext]_vars

\* a participant's account is created and the participant submits answers
LeakNext ==
  \/ PostUsers(2, StudentAccount)
  \/ \E b \in StudentBodies : SessionRole(b.userId) = "student" /\ PostQuizAnswers(b.userId, b)
  \/ \E id \in QuestionInputs : DeleteQuestion(1, id)

LeakSpec == Init /\ [][LeakNext]_vars

\* accounts submit answers and results, and a participant's account exists
BoardNext ==
  \/ PostUsers(2, StudentAccount)
  \/ \E b \in AnswerBodies : PostQuizAnswers(b.userId, b)
  \/ \E u \in DOMAIN users : PostResults(u, HonestBody(u))

BoardSpec == Init /\ [][BoardNext]_vars

\* one participant's browser stays loaded while the quiz is started, reset and
\* started again; the participant lets every countdown run out
RestartNext ==
  \/ PostQuizStart(1)
  \/ PostQuizReset(2)
  \/ \E c \in QuizTakers : PollRequest(c)
  \/ \E c \in QuizTakers : PollResponse(c)
  \/ \E c \in QuizTakers : LoadQuestions(c)
  \/ \E c \in QuizTakers : RestoreAnswers(c)
  \/ \E c \in QuizTakers : TimerExpiry(c)
  \/ \E c \in QuizTakers : TimerContinue(c)

RestartSpec == Init /\ [][RestartNext]_vars

\* one browser's WebSocket effect: route changes, opens, closes and timers
EffectNext ==
  \/ RunEffect
  \/ \E k \in 1..MaxSockets : OnOpen(k)
  \/ \E k \in 1..MaxSockets : OnClose(k)
  \/ \E run \in 1..MaxEffects : ReconnectFires(run)

EffectSpec == Init /\ [][EffectNext]_vars

\* ---- the properties -------------------------------------------------------
PhaseOrder(state) == CASE state = "waiting" -> 0
                       [] state = "started" -> 1
                       [] state = "completed" -> 2

HasResult(u) == \E i \in DOMAIN results : results[i].userId = u

\* C1: a start issued while the phase is not 'waiting' is rejected with an
\* error and leaves the quiz settings (phase, startTime) unchanged.
C1_StartOnlyFromWaiting ==
  [][\A s \in Callers :
       (PostQuizStart(s) /\ quizSettings.state # "waiting")
         => (response'.status # 200 /\ quizSettings' = quizSettings)]_vars

\* C2: after resetQuiz has answered, the phase is 'waiting', startTime is null,
\* lastReset is set, and there is no Answer and no Result left for any account.
C2_ResetClears ==
  (response = [op |-> "reset", status |-> 200]) =>
    /\ quizSettings.state = "waiting"
    /\ quizSettings.startTime = NoTime
    /\ quizSettings.lastReset # NoTime
    /\ DOMAIN quizAnswers = {}
    /\ DOMAIN results = {}
    /\ \A u \in DOMAIN SeedUsers : getQuizAnswersForUser(u) = {} /\ ~HasResult(u)

\* a reset that has answered, issued after the clock moved on from construction
C2_Witness ==
  /\ response = [op |-> "reset", status |-> 200]
  /\ quizSettings.lastReset > 0
  /\ quizSettings.state = "waiting"

\* C3: what saveResult stores does not depend on the submitted score, counts,
\* average and rank: the honest and the forged request of one account store the
\* same results, with the values of calculateScore(userId).
C3_ServerComputedResult ==
  /\ \A u \in DOMAIN SeedUsers :
       LET honest == saveResult(HonestBody(u))
           forged == saveResult(ForgedBody(u))
           r == forged[resultIdCounter]
           c == calculateScore(u)
       IN /\ honest = forged
          /\ r.score = c.score
          /\ r.correctAnswers = c.correctAnswers
          /\ r.incorrectAnswers = c.incorrectAnswers
          /\ r.skippedAnswers = c.skippedAnswers
          /\ r.averageResponseTime = c.averageResponseTime
  /\ (response = [op |-> "result", status |-> 201]) =>
       LET r == results[resultIdCounter - 1]
           c == calculateScore(r.userId)
       IN /\ r.score = c.score
          /\ r.correctAnswers = c.correctAnswers
          /\ r.incorrectAnswers = c.incorrectAnswers
          /\ r.skippedAnswers = c.skippedAnswers
          /\ r.averageResponseTime = c.averageResponseTime

\* a result was just stored whose score is neither request's submitted score
C3_Witness ==
  /\ response = [op |-> "result", status |-> 201]
  /\ results[resultIdCounter - 1].score \notin {HonestBody(1).score, ForgedBody(1).score}
  /\ results[resultIdCounter - 1].correctAnswers > 0

\* C4: every stored Result and every value of calculateScore has
\* score = 2 * correctAnswers - incorrectAnswers.
C4_ScoreFormula ==
  /\ \A i \in DOMAIN results :
       results[i].score = 2 * results[i].correctAnswers - results[i].incorrectAnswers
  /\ \A u \in DOMAIN SeedUsers :
       LET c == calculateScore(u)
       IN c.score = 2 * c.correctAnswers - c.incorrectAnswers

\* a stored Result with a correct and an incorrect answer
C4_Witness ==
  \E i \in DOMAIN results :
    /\ results[i].correctAnswers = 1
    /\ results[i].incorrectAnswers = 1
    /\ results[i].score = 1

\* C5: for every account the counts of calculateScore add up to the number of
\* questions in the bank.
C5_CountsSumToTotal ==
  \A u \in DOMAIN SeedUsers :
    LET c == calculateScore(u)
    IN c.correctAnswers + c.incorrectAnswers + c.skippedAnswers
         = Cardinality(DOMAIN questions)

\* C6: there is at most one Answer record per (userId, questionId).
C6_OneAnswerPerPair ==
  \A i, j \in DOMAIN quizAnswers :
    (quizAnswers[i].userId = quizAnswers[j].userId
       /\ quizAnswers[i].questionId = quizAnswers[j].questionId) => i = j

\* C7: the Result set holds at most one Result per account.
C7_OneResultPerAccount ==
  \A i, j \in DOMAIN results : results[i].userId = results[j].userId => i = j

\* C8: a Result's rank is 1 plus the number of Results with a strictly higher
\* score, so that equal scores carry equal rank.
C8_CompetitionRanking ==
  \A i \in DOMAIN results :
    results[i].rank = 1 + Cardinality({j \in DOMAIN results : results[j].score > results[i].score})

\* C9: the phase moves back to an earlier phase, or leaves 'completed', only in
\* a step of resetQuiz.
C9_PhaseMonotonic ==
  [][(\/ PhaseOrder(quizSettings'.state) < PhaseOrder(quizSettings.state)
      \/ (quizSettings.state = "completed" /\ quizSettings'.state # "completed"))
       => \E s \in Callers : PostQuizReset(s) /\ IsSuperAdmin(s)]_vars

\* the client's submission when its last question's window has elapsed:
\* QuizProvider.submitQuiz posts the result once, while the quiz is started
ClientSubmit(u) ==
  /\ quizSettings.state = "started"
  /\ ~HasResult(u)
  /\ PostResults(u, HonestBody(u))

\* the life cycle with every participant's countdown running to its end
LiveSpec == Init /\ [][Next]_vars /\ \A u \in DOMAIN SeedUsers : WF_vars(ClientSubmit(u))

AllSubmitted ==
  /\ quizSettings.state = "started"
  /\ \A u \in DOMAIN SeedUsers : HasResult(u)

\* C10: once the quiz is started and every participant's last window has
\* elapsed (each has submitted), the phase eventually leaves 'started' for
\* 'completed' (or the cycle is ended by a reset).
C10_EventuallyCompleted == AllSubmitted ~> (quizSettings.state # "started")

\* C17: a submission of an answer or a result whose userId is not the id of
\* the session's user is answered with 403 and writes nothing; every Answer and
\* Result a step stores carries the id of the session that submitted it.
C17_OwnSubmissionsOnly ==
  [][\A s \in DOMAIN SeedUsers :
       /\ \A b \in CycleAnswerBodies :
            PostQuizAnswers(s, b) =>
              IF b.userId # s
                THEN /\ response'.status = 403
                     /\ UNCHANGED <<quizAnswers, results>>
                ELSE /\ DOMAIN quizAnswers' = DOMAIN quizAnswers \cup {quizAnswerIdCounter}
                     /\ quizAnswers'[quizAnswerIdCounter].userId = s
       /\ \A b \in CycleResultBodies :
            PostResults(s, b) =>
              IF b.userId # s
                THEN /\ response'.status = 403
                     /\ UNCHANGED <<quizAnswers, results>>
                ELSE /\ DOMAIN results' = DOMAIN results \cup {resultIdCounter}
                     /\ results'[resultIdCounter].userId = s]_vars

\* a submission for another account was refused while an Answer is stored
C17_Witness ==
  /\ response = [op |-> "answer", status |-> 403]
  /\ DOMAIN quizAnswers # {}

\* what calculateScore counts as right and wrong for an account
Marks(u) == LET c == calculateScore(u)
            IN <<c.score, c.correctAnswers, c.incorrectAnswers>>

\* C16: a change of a question's correctAnswer by updateQuestion changes
\* neither the isCorrect of the Answers already stored nor the score, correct
\* and incorrect counts calculateScore (and so saveResult) produces afterwards.
C16_CorrectnessFixedAtWrite ==
  [][\A id \in QuestionInputs, a \in CorrectAnswerInputs :
       PutQuestion(1, id, [correctAnswer |-> a]) =>
         /\ \A i \in DOMAIN quizAnswers : quizAnswers'[i].isCorrect = quizAnswers[i].isCorrect
         /\ \A u \in DOMAIN SeedUsers : Marks(u)' = Marks(u)]_vars

\* C20: while the question bank is empty, calculateScore returns score 0,
\* correct 0, incorrect 0, skipped 0 and averageResponseTime 0 for every
\* account, whatever Answers the account has.
C20_EmptyBankAllZero ==
  (DOMAIN questions = {}) =>
    \A u \in DOMAIN SeedUsers :
      calculateScore(u) = [score |-> 0, correctAnswers |-> 0, incorrectAnswers |-> 0,
                           skippedAnswers |-> 0, averageResponseTime |-> 0]

\* C18: a submission sent before a reset is not committed after that reset:
\* serving it then writes neither an Answer nor a Result.
C18_NoStaleCommit ==
  [][\A r \in pending :
       (ServeSubmission(r) /\ r.sentAt < quizSettings.lastReset)
         => UNCHANGED <<quizAnswers, results>>]_vars

\* C11: GET /api/quiz/settings answers with the server's current phase, and
\* for a polling browser: if the server phase stays at p from some point on,
\* then from some point on the browser's quizState is p.
C11_PollConverges ==
  /\ [][\A c \in Clients : PollRequest(c) => settingsFetch'[c].state = quizSettings.state]_vars
  /\ \A c \in Clients, p \in QuizStates :
       <>[](quizSettings.state = p) => <>[](quizState[c] = p)

\* a browser shows 'started' for a start that followed a reset
C11_Witness ==
  \E c \in Clients :
    /\ quizState[c] = "started"
    /\ quizSettings.state = "started"
    /\ quizSettings.lastReset # NoTime
    /\ settingsData[c] = quizSettings

\* a connection both ends hold, registered, with no frame left in flight
Drained(c) ==
  /\ webSocket[c] = "open"
  /\ c \in wssClients \cap DOMAIN clients
  /\ wire[c] = <<>>

\* C12: whatever the order in which the broadcast snapshots arrive, and
\* whichever intermediate ones are lost, a browser that applies each snapshot
\* as it arrives ends with the server's current phase.
C12_SnapshotsConverge ==
  \A c \in Clients : Drained(c) => quizState[c] = quizSettings.state

\* C13: every step that changes the quiz settings writes a frame with the
\* complete new settings record to every open connection (unless the write to
\* that connection fails).
C13_EveryChangeBroadcast ==
  [][quizSettings' # quizSettings =>
       \A c \in wssClients :
         \/ c \notin DOMAIN clients'
         \/ /\ wire'[c] # <<>>
            /\ wire'[c][Len(wire'[c])].type = "QUIZ_STATE_UPDATE"
            /\ wire'[c][Len(wire'[c])].payload = quizSettings'
            /\ Len(wire'[c]) = Len(wire[c]) + 1]_vars

\* C14: a connection whose peer stops acknowledging is eventually terminated
\* and removed: it is then neither in the clients Map nor in wss.clients, the
\* set broadcasts write to.
C14_SilentEventuallyRemoved ==
  \A c \in Clients :
    (c \in silent) ~> (c \notin wssClients /\ c \notin DOMAIN clients)

\* the browser has used up its reconnections: closed, nothing scheduled
Exhausted(c) ==
  /\ webSocket[c] = "closed"
  /\ reconnectTimeout[c] = 0

BothSubmitted(u, q) ==
  \E i, j \in getQuizAnswersForUser(u) :
    /\ quizAnswers[i].questionId = q /\ quizAnswers[i].userAnswer # Null
    /\ quizAnswers[j].questionId = q /\ quizAnswers[j].userAnswer = Null

\* the question is counted once: the three counters add up to the bank
CountedOnce(u) ==
  calculateScore(u).correctAnswers + calculateScore(u).incorrectAnswers
    + calculateScore(u).skippedAnswers = Cardinality(DOMAIN questions)

\* C19: when a click and the expired countdown have both submitted the same
\* question, in either order, the question is counted once in the account's
\* score and the account has at most one Result
C19_ManualAndTimerOnce ==
  \A c \in QuizTakers, q \in DOMAIN questions :
    BothSubmitted(c, q) =>
      /\ CountedOnce(c)
      /\ Cardinality({i \in DOMAIN results : results[i].userId = c}) <= 1

\* calculateScore(userId) run on a store that holds only the Answers in `kept`
calculateScoreOver(userId, kept) ==
  LET userAnswers == getQuizAnswersForUser(userId) \cap kept
      found == {i \in userAnswers : quizAnswers[i].questionId \in DOMAIN questions}
      nulls == {i \in found : quizAnswers[i].userAnswer = Null}
      correct == {i \in found \ nulls :
                    quizAnswers[i].userAnswer = questions[quizAnswers[i].questionId].correctAnswer}
      incorrect == (found \ nulls) \ correct
      answeredCount == Cardinality(correct) + Cardinality(incorrect)
  IN [score |-> (Cardinality(correct) * 2) - Cardinality(incorrect),
      correctAnswers |-> Cardinality(correct),
      incorrectAnswers |-> Cardinality(incorrect),
      skippedAnswers |-> (Cardinality(DOMAIN questions) - Cardinality(userAnswers))
                           + Cardinality(nulls),
      averageResponseTime |-> IF answeredCount > 0
                                THEN MathRound(SumOver([i \in userAnswers |->
                                                          quizAnswers[i].responseTimeSeconds],
                                                       userAnswers), answeredCount)
                                ELSE 0]

\* the Answers whose question is still in the bank
Surviving == {i \in DOMAIN quizAnswers : quizAnswers[i].questionId \in DOMAIN questions}

\* C21: an Answer whose question has been deleted is a no-op for scoring:
\* calculateScore returns what it would return if that Answer were not stored
C21_DeletedQuestionNoOp ==
  \A u \in DOMAIN SeedUsers : calculateScore(u) = calculateScoreOver(u, Surviving)

\* the Answers of an account that count as answered: the question is in the
\* bank and an option was chosen
Answered(u) == {i \in getQuizAnswersForUser(u) \cap Surviving : quizAnswers[i].userAnswer # Null}

\* C22: averageResponseTime is the rounded mean of responseTimeSeconds over the
\* answered (non-null) Answers of the account, and 0 when nothing was answered
C22_AverageOverAnswered ==
  \A u \in DOMAIN SeedUsers :
    calculateScore(u).averageResponseTime =
      IF Answered(u) = {} THEN 0
      ELSE MathRound(SumOver([i \in Answered(u) |-> quizAnswers[i].responseTimeSeconds],
                             Answered(u)),
                     Cardinality(Answered(u)))

\* C23: an answer submitted for a question id that is not in the bank fails
\* and stores no Answer
C23_UnknownQuestionRejected ==
  [][\A b \in AnswerBodies :
       (PostQuizAnswers(b.userId, b) /\ b.questionId \notin DOMAIN questions)
         => (quizAnswers' = quizAnswers /\ response'.status # 201)]_vars

\* the question on browser c's screen
OnScreen(c) == quizQuestions[c][currentQuestionIndex[c] + 1]

\* the Results stored for account u
ResultsOf(u) == {i \in DOMAIN results : results[i].userId = u}

\* C24: when the countdown of the question on screen expires, the option
\* ticked on the page (null when none is) becomes that question's submitted
\* answer, and the queued step moves to the next question, or submits the
\* result when the question was the last
C24_ExpirySubmitsSelection ==
  [][\A c \in QuizTakers :
       /\ (TimerExpiry(c) /\ currentQuestionIndex[c] < Len(quizQuestions[c]))
            => /\ OnScreen(c) \in DOMAIN AnswersOf(c).map'
               /\ AnswersOf(c).map'[OnScreen(c)] = selectedAnswer[c]
       /\ TimerContinue(c)
            => IF timerAwait[c].currentQuestionIndex < Len(quizQuestions[c]) - 1
                 THEN currentQuestionIndex'[c] = currentQuestionIndex[c] + 1
                 ELSE ResultsOf(c)' # {}]_vars

\* C25: no two accounts have the same username, compared without case
C25_UniqueUsernames ==
  \A i, j \in DOMAIN users :
    i # j => toLowerCase(users[i].username) # toLowerCase(users[j].username)

\* C26: what a participant is sent does not depend on any correctAnswer: the
\* question list and the echo of a submitted answer are the ones a server
\* with another correctAnswer in its bank would send
C26_ResponsesHideCorrectAnswer ==
  [][\A twin \in TwinBanks :
       /\ questionsBody(questions, "student") = questionsBody(twin, "student")
       /\ questionsBody(questions, "none") = questionsBody(twin, "none")
       /\ \A b \in StudentBodies :
            (PostQuizAnswers(b.userId, b) /\ response'.status = 201)
              => quizAnswers'[quizAnswerIdCounter] = savedAnswer(twin, b)]_vars

\* the ids of the Results in the rows of the table of session s
ShownResults(s) == {tableRows(resultsBody(s))[k].id : k \in DOMAIN tableRows(resultsBody(s))}

\* C27: the table a participant sees has the rows an admin sees, one for each
\* account that has a Result (the first ten of them)
C27_StudentSeesEveryAccount ==
  \A s \in DOMAIN users :
    SessionRole(s) = "student" =>
      /\ ShownResults(s) = ShownResults(1)
      /\ Cardinality(ShownResults(s)) =
           IF Cardinality({results[i].userId : i \in DOMAIN results}) < TableRows
             THEN Cardinality({results[i].userId : i \in DOMAIN results}) ELSE TableRows

\* C28: for an account with a row in the table, the rank of the score card,
\* the rank in its row and the rank calculateRankings stored are the same
C28_RanksAgree ==
  \A u \in DOMAIN users :
    \A k \in DOMAIN tableRows(resultsBody(u)) :
      tableRows(resultsBody(u))[k].userId = u =>
        /\ userRank(resultsBody(u), u) = actualRank(tableRows(resultsBody(u)), k)
        /\ actualRank(tableRows(resultsBody(u)), k) = tableRows(resultsBody(u))[k].rank

\* C29: when a browser that stayed loaded sees the quiz go from waiting to
\* started and the server holds nothing of its account for this cycle, it is
\* at question index 0 with no local answers and completed false
C29_ProgressScopedToCycle ==
  [][\A c \in QuizTakers :
       (/\ PollResponse(c) /\ quizState[c] = "waiting" /\ quizState'[c] = "started"
        /\ getQuizAnswersForUser(c) = {} /\ ResultsOf(c) = {})
         => /\ currentQuestionIndex'[c] = 0
            /\ userAnswersMap'[c] = EmptyMap
            /\ completed'[c] = FALSE]_vars

\* the sockets that are connecting or open
LiveSockets == {k \in DOMAIN socketList : socketList[k].readyState \in {"connecting", "open"}}

\* C30: the browser has at most one live WebSocket, a run of the effect that
\* was torn down has no reconnection scheduled, and the socket in
\* webSocketRef, once the effect has run again, is never one a torn-down run
\* created
C30_OneLiveSocket ==
  /\ Cardinality(LiveSockets) <= 1
  /\ \A run \in runTimeout : run = effectRuns
  /\ webSocketRef # 0 => socketList[webSocketRef].owner = effectRuns

TypeOK ==
  /\ now \in 0..MaxTime
  /\ quizSettings.state \in QuizStates
  /\ quizAnswerIdCounter \in 1..(MaxAnswers + 1)
  /\ resultIdCounter \in 1..(MaxResults + 1)
====
